---- MODULE Spec2Model ----
(***************************************************************************)
(* Model of the Excel analysis API (excel_analysis/api): the view          *)
(* ExcelAnalysisView.post, the serializer ExcelUploadSerializer, the       *)
(* function process_excel_file and the ExcelProcessor static methods.      *)
(*                                                                         *)
(* Representation.                                                         *)
(*  - A Python str is a sequence of one-character strings.  The strings of *)
(*    the input pools are written with ASCII letters, digits, "." "," "$"  *)
(*    "-" "*" "_" and " ", and none of them spells a float literal with an *)
(*    exponent, an underscore, "inf" or "nan": on such strings float()     *)
(*    accepts exactly the plain decimal literals.                          *)
(*  - A float is an integer number of thousandths.  The numbers of the     *)
(*    input pools are such that binary floating point gives the sums and   *)
(*    quotients of exact arithmetic wherever rounding looks at them: a     *)
(*    quotient total / count that is a decimal tie at the third place is   *)
(*    exactly representable, so round(x, 2) is rounding to the nearest     *)
(*    hundredth with an exact tie going to the even one.                   *)
(*  - The result of round(x, 2) is an integer number of hundredths.        *)
(*  - A cell value is a record [k, v, s]: k is the Python type of the      *)
(*    value ("none", "int", "float", "str"), v the number (an int in       *)
(*    units, a float in thousandths), s the text.  An int of kind "int" is *)
(*    within the range of a float; the kind "bigint" is the int 10^v with  *)
(*    v above 308, which no float holds.                                   *)
(***************************************************************************)
EXTENDS Integers, Sequences, FiniteSets, TLC

VARIABLES pc, request, upload, columns, sheet_name, tmp_file, workbook, sheet,
          header_row, headers, matches, col_idx, values, summary, response

vars == <<pc, request, upload, columns, sheet_name, tmp_file, workbook, sheet,
          header_row, headers, matches, col_idx, values, summary, response>>

(***************************************************************************)
(* Strings                                                                 *)
(***************************************************************************)
Digits == {"0", "1", "2", "3", "4", "5", "6", "7", "8", "9"}

DigitVal(c) ==
    CASE c = "0" -> 0 [] c = "1" -> 1 [] c = "2" -> 2 [] c = "3" -> 3
      [] c = "4" -> 4 [] c = "5" -> 5 [] c = "6" -> 6 [] c = "7" -> 7
      [] c = "8" -> 8 [] c = "9" -> 9

DigitChar(d) ==
    CASE d = 0 -> "0" [] d = 1 -> "1" [] d = 2 -> "2" [] d = 3 -> "3"
      [] d = 4 -> "4" [] d = 5 -> "5" [] d = 6 -> "6" [] d = 7 -> "7"
      [] d = 8 -> "8" [] d = 9 -> "9"

\* str.lower() on one character
LowerChar(c) ==
    CASE c = "A" -> "a" [] c = "B" -> "b" [] c = "C" -> "c" [] c = "D" -> "d"
      [] c = "E" -> "e" [] c = "F" -> "f" [] c = "G" -> "g" [] c = "H" -> "h"
      [] c = "I" -> "i" [] c = "J" -> "j" [] c = "K" -> "k" [] c = "L" -> "l"
      [] c = "M" -> "m" [] c = "N" -> "n" [] c = "O" -> "o" [] c = "P" -> "p"
      [] c = "Q" -> "q" [] c = "R" -> "r" [] c = "S" -> "s" [] c = "T" -> "t"
      [] c = "U" -> "u" [] c = "V" -> "v" [] c = "W" -> "w" [] c = "X" -> "x"
      [] c = "Y" -> "y" [] c = "Z" -> "z"
      [] OTHER -> c

\* str.lower()
Lower(s) == [i \in 1..Len(s) |-> LowerChar(s[i])]

\* the Python operator `sub in s` on two strings
Contains(sub, s) ==
    \E i \in 0..(Len(s) - Len(sub)) : SubSeq(s, i + 1, i + Len(sub)) = sub

\* str.replace(ch, ""): every occurrence of the character is removed
RECURSIVE Remove(_, _)
Remove(s, ch) ==
    IF s = <<>> THEN <<>>
    ELSE IF Head(s) = ch THEN Remove(Tail(s), ch)
    ELSE <<Head(s)>> \o Remove(Tail(s), ch)

RECURSIVE LStrip(_)
LStrip(s) ==
    IF s = <<>> THEN <<>>
    ELSE IF Head(s) = " " THEN LStrip(Tail(s))
    ELSE s

RECURSIVE RStrip(_)
RStrip(s) ==
    IF s = <<>> THEN <<>>
    ELSE IF s[Len(s)] = " " THEN RStrip(SubSeq(s, 1, Len(s) - 1))
    ELSE s

\* str.strip()
Strip(s) == RStrip(LStrip(s))

\* str(n) for an int n >= 0
RECURSIVE StrNat(_)
StrNat(n) ==
    IF n < 10 THEN <<DigitChar(n)>>
    ELSE StrNat(n \div 10) \o <<DigitChar(n % 10)>>

\* str(n) for an int
StrInt(n) == IF n < 0 THEN <<"-">> \o StrNat(0 - n) ELSE StrNat(n)

\* the fraction digits of repr(float): trailing zeros dropped, one digit kept
FracDigits(f) ==
    IF f % 100 = 0 THEN <<DigitChar(f \div 100)>>
    ELSE IF f % 10 = 0 THEN <<DigitChar(f \div 100), DigitChar((f \div 10) % 10)>>
    ELSE <<DigitChar(f \div 100), DigitChar((f \div 10) % 10), DigitChar(f % 10)>>

\* str(x) for a float x of m thousandths
StrFloat(m) ==
    LET a == IF m < 0 THEN 0 - m ELSE m
    IN  (IF m < 0 THEN <<"-">> ELSE <<>>)
          \o StrNat(a \div 1000) \o <<".">> \o FracDigits(a % 1000)

(***************************************************************************)
(* float(text)                                                             *)
(***************************************************************************)
\* the literal without its sign
Unsigned(s) ==
    IF s # <<>> /\ Head(s) \in {"-", "+"} THEN Tail(s) ELSE s

\* float(s) does not raise ValueError
IsFloatLiteral(s) ==
    LET t == Strip(s)
        u == Unsigned(t)
        dots == {i \in 1..Len(u) : u[i] = "."}
    IN  /\ \A i \in 1..Len(u) : u[i] \in Digits \cup {"."}
        /\ Cardinality(dots) <= 1
        /\ \E i \in 1..Len(u) : u[i] \in Digits

RECURSIVE NatOf(_)
NatOf(s) ==
    IF s = <<>> THEN 0
    ELSE NatOf(SubSeq(s, 1, Len(s) - 1)) * 10 + DigitVal(s[Len(s)])

\* float(s), in thousandths, for a literal of at most three fraction digits
FloatOf(s) ==
    LET t == Strip(s)
        u == Unsigned(t)
        dots == {i \in 1..Len(u) : u[i] = "."}
        d == IF dots = {} THEN Len(u) + 1 ELSE CHOOSE i \in dots : TRUE
        whole == SubSeq(u, 1, d - 1)
        frac == SubSeq(SubSeq(u, d + 1, Len(u)) \o <<"0", "0", "0">>, 1, 3)
        a == NatOf(whole) * 1000 + NatOf(frac)
    IN  IF t # <<>> /\ Head(t) = "-" THEN 0 - a ELSE a

(***************************************************************************)
(* Cell values and worksheets (openpyxl)                                   *)
(***************************************************************************)
NoneCell == [k |-> "none", v |-> 0, s |-> <<>>]
IntCell(n) == [k |-> "int", v |-> n, s |-> <<>>]
FloatCell(m) == [k |-> "float", v |-> m, s |-> <<>>]
StrCell(t) == [k |-> "str", v |-> 0, s |-> t]
BigIntCell(e) == [k |-> "bigint", v |-> e, s |-> <<>>]

\* worksheet.cell(row=r, column=c).value; a cell never written holds None
CellValue(ws, r, c) ==
    IF <<r, c>> \in DOMAIN ws.cell THEN ws.cell[<<r, c>>] ELSE NoneCell

\* isinstance(val, str)
IsStr(val) == val.k = "str"

\* isinstance(val, (int, float))
IsNumber(val) == val.k \in {"int", "float", "bigint"}

\* float(val) raises OverflowError: the int is too large to convert
FloatRaises(val) == val.k = "bigint"

\* float(val) for an int or a float that float() converts, in thousandths
ToFloat(val) ==
    CASE val.k = "int" -> val.v * 1000
      [] val.k = "float" -> val.v

\* the truth value of a cell value: None, 0, 0.0 and "" are false
Truthy(val) ==
    CASE val.k = "none" -> FALSE
      [] val.k = "str" -> val.s # <<>>
      [] OTHER -> val.v # 0

\* str(value or "")
StrOrEmpty(val) ==
    IF ~Truthy(val) THEN <<>>
    ELSE CASE val.k = "str" -> val.s
           [] val.k = "int" -> StrInt(val.v)
           [] val.k = "float" -> StrFloat(val.v)
           [] val.k = "bigint" -> <<"1">> \o [i \in 1..val.v |-> "0"]

(***************************************************************************)
(* ExcelProcessor.find_best_header_row                                     *)
(***************************************************************************)
\* the exclusive upper end of the scanned row range
ScanStop == 11

Min(a, b) == IF a <= b THEN a ELSE b

\* the number of str cells of a row
TextCells(ws, row) ==
    Cardinality({col \in 1..ws.max_column : IsStr(CellValue(ws, row, col))})

\* the loop over range(row, stop), carrying best_row and best_count
\* as HeaderLoop, but a row with as many text cells replaces the best
RECURSIVE HeaderLoopTies(_, _, _, _, _)
HeaderLoopTies(ws, row, stop, best_row, best_count) ==
    IF row >= stop THEN best_row
    ELSE IF TextCells(ws, row) >= best_count
         THEN HeaderLoopTies(ws, row + 1, stop, row, TextCells(ws, row))
         ELSE HeaderLoopTies(ws, row + 1, stop, best_row, best_count)

RECURSIVE HeaderLoop(_, _, _, _, _)
HeaderLoop(ws, row, stop, best_row, best_count) ==
    IF row >= stop THEN best_row
    ELSE IF TextCells(ws, row) > best_count
         THEN HeaderLoop(ws, row + 1, stop, row, TextCells(ws, row))
         ELSE HeaderLoop(ws, row + 1, stop, best_row, best_count)

find_best_header_row(ws) ==
    HeaderLoop(ws, 1, Min(ScanStop, ws.max_row + 1), 1, 0)

(***************************************************************************)
(* ExcelProcessor.find_column_matches                                      *)
(***************************************************************************)
NoIndex == -1

\* the inner loop: the index of the first header that matches, from idx on
\* as HeaderScan, but the comparison is case-sensitive
RECURSIVE HeaderScanCase(_, _, _)
HeaderScanCase(hs, target, idx) ==
    IF idx >= Len(hs) THEN NoIndex
    ELSE IF hs[idx + 1] # <<>> /\ Contains(target, hs[idx + 1])
         THEN idx
         ELSE HeaderScanCase(hs, target, idx + 1)

\* as HeaderScan, but the last header that matches wins
RECURSIVE HeaderScanLast(_, _, _)
HeaderScanLast(hs, target, idx) ==
    IF idx >= Len(hs) THEN NoIndex
    ELSE IF HeaderScanLast(hs, target, idx + 1) # NoIndex
         THEN HeaderScanLast(hs, target, idx + 1)
         ELSE IF hs[idx + 1] # <<>> /\ Contains(Lower(target), Lower(hs[idx + 1]))
              THEN idx
              ELSE NoIndex

RECURSIVE HeaderScan(_, _, _)
HeaderScan(hs, target, idx) ==
    IF idx >= Len(hs) THEN NoIndex
    ELSE IF hs[idx + 1] # <<>> /\ Contains(Lower(target), Lower(hs[idx + 1]))
         THEN idx
         ELSE HeaderScan(hs, target, idx + 1)

\* a dict is the sequence of its items [name, idx] in insertion order
HasKey(d, key) == \E i \in 1..Len(d) : d[i].name = key

DictGet(d, key) == d[CHOOSE i \in 1..Len(d) : d[i].name = key].idx

\* as DictSet, but an old key is added again
DictSetAppend(d, key, value) == Append(d, [name |-> key, idx |-> value])

\* d[key] = value: a new key goes last, an old key keeps its place
DictSet(d, key, value) ==
    IF HasKey(d, key)
    THEN [i \in 1..Len(d) |->
            IF d[i].name = key THEN [name |-> key, idx |-> value] ELSE d[i]]
    ELSE Append(d, [name |-> key, idx |-> value])

\* the outer loop over target_columns, carrying the dict
RECURSIVE MatchLoop(_, _, _)
MatchLoop(hs, targets, d) ==
    IF targets = <<>> THEN d
    ELSE LET idx == HeaderScan(hs, Head(targets), 0)
         IN  MatchLoop(hs, Tail(targets),
                       IF idx # NoIndex THEN DictSet(d, Head(targets), idx) ELSE d)

find_column_matches(hs, target_columns) == MatchLoop(hs, target_columns, <<>>)

(***************************************************************************)
(* ExcelProcessor.extract_numeric_values                                   *)
(***************************************************************************)
\* as Clean, but the commas stay
CleanKeepCommas(s) == Strip(Remove(s, "$"))

\* val.replace(",", "").replace("$", "").strip()
Clean(s) == Strip(Remove(Remove(s, ","), "$"))

\* the loop over range(row, max_row + 1), carrying the list
RECURSIVE ExtractLoop(_, _, _, _)
ExtractLoop(ws, row, col, acc) ==
    IF row > ws.max_row THEN acc
    ELSE LET val == CellValue(ws, row, col)
         IN  IF IsNumber(val)
             THEN ExtractLoop(ws, row + 1, col, Append(acc, ToFloat(val)))
             ELSE IF IsStr(val) /\ IsFloatLiteral(Clean(val.s))
             THEN ExtractLoop(ws, row + 1, col, Append(acc, FloatOf(Clean(val.s))))
             ELSE ExtractLoop(ws, row + 1, col, acc)

extract_numeric_values(ws, hrow, cidx) == ExtractLoop(ws, hrow + 1, cidx + 1, <<>>)

\* extract_numeric_values leaves by the OverflowError of float(val): the
\* numeric branch is outside the try, and the try catches ValueError only
ExtractRaises(ws, hrow, cidx) ==
    \E row \in (hrow + 1)..ws.max_row : FloatRaises(CellValue(ws, row, cidx + 1))

(***************************************************************************)
(* The body of ExcelProcessor.find_columns_in_excel on the chosen sheet    *)
(***************************************************************************)
RECURSIVE SumSeq(_)
SumSeq(xs) == IF xs = <<>> THEN 0 ELSE Head(xs) + SumSeq(Tail(xs))

\* as Round2, but an exact tie goes up
Round2HalfUp(num, den) ==
    LET q == num \div (10 * den)
        r == num - q * 10 * den
    IN  IF 2 * r < 10 * den THEN q ELSE q + 1

\* round(num / den, 2) for num in thousandths and den > 0, in hundredths:
\* to the nearest hundredth, an exact tie to the even one
Round2(num, den) ==
    LET q == num \div (10 * den)
        r == num - q * 10 * den
    IN  IF 2 * r < 10 * den THEN q
        ELSE IF 2 * r > 10 * den THEN q + 1
        ELSE IF q % 2 = 0 THEN q ELSE q + 1

\* the list comprehension that builds headers
HeaderStrings(ws, hrow) ==
    [c \in 1..ws.max_column |-> Strip(StrOrEmpty(CellValue(ws, hrow, c)))]

\* as SummaryEntry, but avg is taken from the rounded sum
SummaryEntryRoundedSum(name, vals) ==
    [column |-> name,
     sum |-> Round2(SumSeq(vals), 1),
     avg |-> Round2(Round2(SumSeq(vals), 1) * 10, Len(vals))]

\* the dict entry appended for a column with values
SummaryEntry(name, vals) ==
    [column |-> name,
     sum |-> Round2(SumSeq(vals), 1),
     avg |-> Round2(SumSeq(vals), Len(vals))]

\* as SummaryLoop, but a column without values is reported with zeros
RECURSIVE SummaryLoopKeepEmpty(_, _, _, _)
SummaryLoopKeepEmpty(ws, hrow, items, acc) ==
    IF items = <<>> THEN acc
    ELSE LET vals == extract_numeric_values(ws, hrow, Head(items).idx)
         IN  SummaryLoopKeepEmpty(ws, hrow, Tail(items),
                         IF vals # <<>>
                         THEN Append(acc, SummaryEntry(Head(items).name, vals))
                         ELSE Append(acc, [column |-> Head(items).name,
                                           sum |-> 0, avg |-> 0]))

\* the loop over matches.items(), carrying summary
RECURSIVE SummaryLoop(_, _, _, _)
SummaryLoop(ws, hrow, items, acc) ==
    IF items = <<>> THEN acc
    ELSE LET vals == extract_numeric_values(ws, hrow, Head(items).idx)
         IN  SummaryLoop(ws, hrow, Tail(items),
                         IF vals # <<>>
                         THEN Append(acc, SummaryEntry(Head(items).name, vals))
                         ELSE acc)

\* the loop over matches.items() leaves by an exception of an extraction
SummaryRaises(ws, hrow, items) ==
    \E i \in 1..Len(items) : ExtractRaises(ws, hrow, items[i].idx)

(***************************************************************************)
(* Worksheets of the test suite (tests.py)                                 *)
(***************************************************************************)
\* a worksheet from the cells written to it, as <<row, column>> :> value
MakeSheet(rows, cols, written) ==
    [max_row |-> rows, max_column |-> cols,
     cell |-> [p \in (1..rows) \X (1..cols) |->
                 IF p \in DOMAIN written THEN written[p] ELSE NoneCell]]

\* _create_simple_excel_file
SimpleSheet ==
    MakeSheet(5, 3,
         <<1, 1>> :> StrCell(<<"P", "r", "o", "d", "u", "c", "t">>)
      @@ <<1, 2>> :> StrCell(<<"P", "r", "i", "c", "e">>)
      @@ <<1, 3>> :> StrCell(<<"Q", "u", "a", "n", "t", "i", "t", "y">>)
      @@ <<2, 1>> :> StrCell(<<"I", "t", "e", "m", " ", "1">>)
      @@ <<2, 2>> :> FloatCell(100500)
      @@ <<2, 3>> :> IntCell(10)
      @@ <<3, 1>> :> StrCell(<<"I", "t", "e", "m", " ", "2">>)
      @@ <<3, 2>> :> FloatCell(200000)
      @@ <<3, 3>> :> IntCell(5)
      @@ <<4, 1>> :> StrCell(<<"I", "t", "e", "m", " ", "3">>)
      @@ <<4, 2>> :> FloatCell(150750)
      @@ <<4, 3>> :> IntCell(8)
      @@ <<5, 1>> :> StrCell(<<"I", "t", "e", "m", " ", "4">>)
      @@ <<5, 2>> :> FloatCell(75250)
      @@ <<5, 3>> :> IntCell(15))

\* _create_complex_excel_file
ComplexSheet ==
    MakeSheet(8, 5,
         <<1, 1>> :> StrCell(<<"*", "*", "*", " ", "P", "R", "I", "C", "E", " ", "L", "I", "S", "T", " ", "2", "0", "2", "4", " ", "*", "*", "*">>)
      @@ <<3, 1>> :> StrCell(<<"I", "D">>)
      @@ <<3, 2>> :> StrCell(<<"D", "e", "s", "c", "r", "i", "p", "t", "i", "o", "n">>)
      @@ <<3, 3>> :> StrCell(<<" ", "C", "U", "R", "R", "E", "N", "T", " ", "U", "S", "D">>)
      @@ <<3, 4>> :> StrCell(<<" ", "C", "U", "R", "R", "E", "N", "T", " ", "C", "A", "D">>)
      @@ <<3, 5>> :> StrCell(<<"T", "H", "I", "S", " ", "I", "S", " ", "T", "H", "E", " ", "N", "E", "W", " ", "P", "R", "I", "C", "E", " ", "I", "N", " ", "U", "S", "D">>)
      @@ <<4, 1>> :> StrCell(<<"E", "L", "E", "C", "T", "R", "O", "N", "I", "C", "S", " ", "S", "E", "C", "T", "I", "O", "N">>)
      @@ <<5, 1>> :> StrCell(<<"E", "0", "0", "1">>)
      @@ <<5, 2>> :> StrCell(<<"L", "a", "p", "t", "o", "p">>)
      @@ <<5, 3>> :> FloatCell(1200000)
      @@ <<5, 4>> :> FloatCell(1440000)
      @@ <<5, 5>> :> FloatCell(1250000)
      @@ <<6, 1>> :> StrCell(<<"E", "0", "0", "2">>)
      @@ <<6, 2>> :> StrCell(<<"M", "o", "u", "s", "e">>)
      @@ <<6, 3>> :> FloatCell(25500)
      @@ <<6, 4>> :> FloatCell(30600)
      @@ <<6, 5>> :> FloatCell(27000)
      @@ <<7, 1>> :> StrCell(<<"E", "0", "0", "3">>)
      @@ <<7, 2>> :> StrCell(<<"K", "e", "y", "b", "o", "a", "r", "d">>)
      @@ <<7, 3>> :> FloatCell(85750)
      @@ <<7, 4>> :> FloatCell(102900)
      @@ <<7, 5>> :> FloatCell(89000)
      @@ <<8, 1>> :> StrCell(<<"E", "0", "0", "4">>)
      @@ <<8, 2>> :> StrCell(<<"M", "o", "n", "i", "t", "o", "r">>)
      @@ <<8, 3>> :> FloatCell(350000)
      @@ <<8, 4>> :> FloatCell(420000)
      @@ <<8, 5>> :> FloatCell(365000))

\* column names the tests ask for
TPrice == <<"p", "r", "i", "c", "e">>
TQuantity == <<"q", "u", "a", "n", "t", "i", "t", "y">>
TUsd == <<"u", "s", "d">>
TCad == <<"c", "a", "d">>
TCurrentUsd == <<"c", "u", "r", "r", "e", "n", "t", " ", "u", "s", "d">>
TNonexistent == <<"n", "o", "n", "e", "x", "i", "s", "t", "e", "n", "t", "_", "c", "o", "l", "u", "m", "n">>

\* file names and sheet names
NameXlsx == <<"t", "e", "s", "t", ".", "x", "l", "s", "x">>
NameXls == <<"T", "E", "S", "T", ".", "X", "L", "S">>
NameTxt == <<"t", "e", "s", "t", ".", "t", "x", "t">>
ExtXlsx == <<".", "x", "l", "s", "x">>
ExtXls == <<".", "x", "l", "s">>
SheetA == <<"S", "h", "e", "e", "t">>
SheetB == <<"D", "a", "t", "a">>

(***************************************************************************)
(* ExcelUploadSerializer                                                   *)
(***************************************************************************)
\* an optional str: None, or the str s
None == [given |-> FALSE, s |-> <<>>]
Some(t) == [given |-> TRUE, s |-> t]

\* str.endswith(suffix)
EndsWith(t, suffix) ==
    /\ Len(suffix) <= Len(t)
    /\ SubSeq(t, Len(t) - Len(suffix) + 1, Len(t)) = suffix

\* validate_file passes
ValidFile(name) ==
    EndsWith(Lower(name), ExtXlsx) \/ EndsWith(Lower(name), ExtXls)

\* the columns field and validate_columns pass
ValidColumns(cols) ==
    /\ cols # <<>>
    /\ \A i \in 1..Len(cols) : Strip(cols[i]) # <<>>

\* serializer.is_valid()
IsValid(req) == ValidFile(req.filename) /\ ValidColumns(req.columns)

\* validated_data["columns"]
CleanColumns(cols) == [i \in 1..Len(cols) |-> Strip(cols[i])]

\* validated_data.get("sheet_name"): the field trims, a blank stays a str
CleanSheetName(name) == IF name.given THEN Some(Strip(name.s)) ELSE None

(***************************************************************************)
(* State                                                                   *)
(*  pc          where the request is                                       *)
(*  request     the posted form: file name, columns, sheet_name            *)
(*  upload      the posted file: whether it decodes, its sheets            *)
(*  columns, sheet_name   the validated data                               *)
(*  tmp_file    the temporary file: "none", "exists", "removed"            *)
(*  workbook    the loaded workbook: "none", "open", "closed"              *)
(*  sheet       the chosen worksheet                                       *)
(*  header_row, headers, matches, summary   find_columns_in_excel locals   *)
(*  col_idx, values   argument and result of extract_numeric_values        *)
(*  response    the HTTP response                                          *)
(***************************************************************************)
NoSheet == [max_row |-> 0, max_column |-> 0, cell |-> <<>>]
NoRequest == [filename |-> <<>>, columns |-> <<>>, sheet_name |-> None]
NoResponse == [status |-> 0, kind |-> "none", file |-> <<>>, summary |-> <<>>]

\* load_workbook raises on the posted bytes
BadUpload == [valid |-> FALSE, active |-> <<>>, sheets |-> <<>>]

\* a workbook with the one sheet ws
OneSheet(ws) == [valid |-> TRUE, active |-> SheetA, sheets |-> (SheetA :> ws)]

\* a workbook with the active sheet ws and a second sheet
TwoSheets(ws, other) ==
    [valid |-> TRUE, active |-> SheetA, sheets |-> (SheetA :> ws @@ SheetB :> other)]

(***************************************************************************)
(* ExcelAnalysisView.post and process_excel_file, step by step             *)
(***************************************************************************)
\* views.py 22-32: validation; an invalid request is answered with 400
Post ==
    /\ pc = "post"
    /\ IF IsValid(request)
       THEN /\ columns' = CleanColumns(request.columns)
            /\ sheet_name' = CleanSheetName(request.sheet_name)
            /\ pc' = "write_upload"
            /\ UNCHANGED response
       ELSE /\ response' = [status |-> 400, kind |-> "invalid",
                            file |-> <<>>, summary |-> <<>>]
            /\ pc' = "done"
            /\ UNCHANGED <<columns, sheet_name>>
    /\ UNCHANGED <<request, upload, tmp_file, workbook, sheet, header_row,
                   headers, matches, col_idx, values, summary>>

\* utils.py 89-92: the temporary file is created and the chunks are written;
\* a failed write leaves the with block by an exception, before the try
WriteUpload ==
    /\ pc = "write_upload"
    /\ tmp_file' = "exists"
    /\ \E written \in BOOLEAN :
          pc' = IF written THEN "load_workbook" ELSE "except"
    /\ UNCHANGED <<request, upload, columns, sheet_name, workbook, sheet,
                   header_row, headers, matches, col_idx, values, summary,
                   response>>

\* utils.py 61: openpyxl.load_workbook
LoadWorkbook ==
    /\ pc = "load_workbook"
    /\ IF upload.valid
       THEN workbook' = "open" /\ pc' = "select_sheet"
       ELSE workbook' = workbook /\ pc' = "finally_raise"
    /\ UNCHANGED <<request, upload, columns, sheet_name, tmp_file, sheet,
                   header_row, headers, matches, col_idx, values, summary,
                   response>>

\* as SelectSheet, but a missing sheet falls back to the active one
SelectSheetFallback ==
    /\ pc = "select_sheet"
    /\ IF sheet_name.given /\ sheet_name.s \in DOMAIN upload.sheets
       THEN sheet' = upload.sheets[sheet_name.s]
       ELSE sheet' = upload.sheets[upload.active]
    /\ pc' = "analyze"
    /\ UNCHANGED <<request, upload, columns, sheet_name, tmp_file, workbook,
                   header_row, headers, matches, col_idx, values, summary,
                   response>>

\* utils.py 62: workbook[sheet_name] if sheet_name else workbook.active
SelectSheet ==
    /\ pc = "select_sheet"
    /\ IF sheet_name.given /\ sheet_name.s # <<>>
       THEN IF sheet_name.s \in DOMAIN upload.sheets
            THEN sheet' = upload.sheets[sheet_name.s] /\ pc' = "analyze"
            ELSE sheet' = sheet /\ pc' = "finally_raise"
       ELSE sheet' = upload.sheets[upload.active] /\ pc' = "analyze"
    /\ UNCHANGED <<request, upload, columns, sheet_name, tmp_file, workbook,
                   header_row, headers, matches, col_idx, values, summary,
                   response>>

\* utils.py 64-83: header row, headers, matches, summary, workbook.close();
\* an exception of the summary loop skips the close and the return
Analyze ==
    /\ pc = "analyze"
    /\ header_row' = find_best_header_row(sheet)
    /\ headers' = HeaderStrings(sheet, header_row')
    /\ matches' = find_column_matches(headers', columns)
    /\ IF SummaryRaises(sheet, header_row', matches')
       THEN /\ summary' = summary
            /\ workbook' = workbook
            /\ pc' = "finally_raise"
       ELSE /\ summary' = SummaryLoop(sheet, header_row', matches', <<>>)
            /\ workbook' = "closed"
            /\ pc' = "finally_return"
    /\ UNCHANGED <<request, upload, columns, sheet_name, tmp_file, sheet,
                   col_idx, values, response>>

\* utils.py 96-98: the finally clause of process_excel_file
Finally ==
    /\ pc \in {"finally_return", "finally_raise"}
    /\ tmp_file' = IF tmp_file = "exists" THEN "removed" ELSE tmp_file
    /\ pc' = IF pc = "finally_return" THEN "respond" ELSE "except"
    /\ UNCHANGED <<request, upload, columns, sheet_name, workbook, sheet,
                   header_row, headers, matches, col_idx, values, summary,
                   response>>

\* views.py 36-44: the 200 response
Respond ==
    /\ pc = "respond"
    /\ response' = [status |-> 200, kind |-> "summary",
                    file |-> request.filename, summary |-> summary]
    /\ pc' = "done"
    /\ UNCHANGED <<request, upload, columns, sheet_name, tmp_file, workbook,
                   sheet, header_row, headers, matches, col_idx, values,
                   summary>>

\* views.py 46-50: the except clause of post
Except ==
    /\ pc = "except"
    /\ response' = [status |-> 500, kind |-> "error",
                    file |-> <<>>, summary |-> <<>>]
    /\ pc' = "done"
    /\ UNCHANGED <<request, upload, columns, sheet_name, tmp_file, workbook,
                   sheet, header_row, headers, matches, col_idx, values,
                   summary>>

(***************************************************************************)
(* The requests of the model: the workbooks of the test suite, posted with *)
(* lists of the column names the tests use                                 *)
(***************************************************************************)
MaxColumns == 2

\* the sequences over S of length lo..hi
SeqsOf(S, lo, hi) == UNION {[1..n -> S] : n \in lo..hi}

\* a sheet that holds nothing
EmptySheet == MakeSheet(1, 1, <<>>)

\* a price and a quantity column, the last quantity being the int 10^400
OversizedSheet ==
    MakeSheet(3, 2,
         <<1, 1>> :> StrCell(<<"P", "r", "i", "c", "e">>)
      @@ <<1, 2>> :> StrCell(<<"Q", "u", "a", "n", "t", "i", "t", "y">>)
      @@ <<2, 1>> :> FloatCell(100500)
      @@ <<2, 2>> :> IntCell(10)
      @@ <<3, 1>> :> FloatCell(200000)
      @@ <<3, 2>> :> BigIntCell(400))

Uploads ==
    {BadUpload, OneSheet(SimpleSheet), OneSheet(ComplexSheet),
     OneSheet(OversizedSheet),
     TwoSheets(EmptySheet, SimpleSheet), TwoSheets(ComplexSheet, SimpleSheet)}

PostedNames == {TPrice, TQuantity, TUsd, TNonexistent, <<" ">>}

PostedSheetNames == {None, Some(<<>>), Some(<<" ">>), Some(SheetB)}

Requests(maxcols) ==
    [filename : {NameXlsx, NameXls, NameTxt},
     columns : SeqsOf(PostedNames, 0, maxcols),
     sheet_name : PostedSheetNames]

Init ==
    /\ pc = "post"
    /\ request \in Requests(MaxColumns)
    /\ upload \in Uploads
    /\ columns = <<>>
    /\ sheet_name = None
    /\ tmp_file = "none"
    /\ workbook = "none"
    /\ sheet = NoSheet
    /\ header_row = 0
    /\ headers = <<>>
    /\ matches = <<>>
    /\ col_idx = 0
    /\ values = <<>>
    /\ summary = <<>>
    /\ response = NoResponse

Next ==
    \/ Post
    \/ WriteUpload
    \/ LoadWorkbook
    \/ SelectSheet
    \/ Analyze
    \/ Finally
    \/ Respond
    \/ Except

Spec == Init /\ [][Next]_vars

(***************************************************************************)
(* Worksheets with few cells written                                       *)
(***************************************************************************)
\* the subsets of S of at most k elements
RECURSIVE SubsetsUpTo(_, _)
SubsetsUpTo(S, k) ==
    IF k = 0 THEN {{}}
    ELSE LET smaller == SubsetsUpTo(S, k - 1)
         IN  smaller \cup {T \cup {x} : T \in smaller, x \in S}

\* the rows x cols worksheets with at most filled cells written, from pool
SparseSheets(rows, cols, filled, pool) ==
    {MakeSheet(rows, cols, written) :
        written \in UNION {[T -> pool] :
                             T \in SubsetsUpTo((1..rows) \X (1..cols), filled)}}

TextAb == <<"A", "b">>

(***************************************************************************)
(* find_best_header_row called on its own                                  *)
(***************************************************************************)
HdrRows == 12
HdrCols == 2
HdrFilled == 2

HeaderPool == {StrCell(TextAb), FloatCell(125)}

\* the worksheets of the test suite
TestSheets == {SimpleSheet, ComplexSheet}

Idle ==
    /\ request = NoRequest
    /\ upload = BadUpload
    /\ sheet_name = None
    /\ tmp_file = "none"
    /\ workbook = "none"
    /\ response = NoResponse

InitHeader ==
    /\ pc = "call_header"
    /\ \/ \E rows \in 1..HdrRows :
             sheet \in SparseSheets(rows, HdrCols, HdrFilled, HeaderPool)
       \/ sheet \in TestSheets
    /\ columns = <<>> /\ header_row = 0 /\ headers = <<>> /\ matches = <<>>
    /\ col_idx = 0 /\ values = <<>> /\ summary = <<>>
    /\ Idle

CallHeader ==
    /\ pc = "call_header"
    /\ header_row' = find_best_header_row(sheet)
    /\ pc' = "ret_header"
    /\ UNCHANGED <<request, upload, columns, sheet_name, tmp_file, workbook,
                   sheet, headers, matches, col_idx, values, summary, response>>

SpecHeader == InitHeader /\ [][CallHeader]_vars

(***************************************************************************)
(* find_column_matches called on its own                                   *)
(***************************************************************************)
MaxHeaders == 3
MaxTargets == 2

HeaderNames == {<<>>, TextAb, <<"b">>, <<"B", "a">>}
TargetNames == {<<>>, <<"a">>, <<"B">>, <<"a", "b">>, <<"x">>}

InitMatch ==
    /\ pc = "call_match"
    /\ headers \in SeqsOf(HeaderNames, 0, MaxHeaders)
    /\ columns \in SeqsOf(TargetNames, 0, MaxTargets)
    /\ sheet = NoSheet /\ header_row = 0 /\ matches = <<>>
    /\ col_idx = 0 /\ values = <<>> /\ summary = <<>>
    /\ Idle

CallMatch ==
    /\ pc = "call_match"
    /\ matches' = find_column_matches(headers, columns)
    /\ pc' = "ret_match"
    /\ UNCHANGED <<request, upload, columns, sheet_name, tmp_file, workbook,
                   sheet, header_row, headers, col_idx, values, summary,
                   response>>

SpecMatch == InitMatch /\ [][CallMatch]_vars

(***************************************************************************)
(* extract_numeric_values called on its own                                *)
(***************************************************************************)
ExtRows == 3
ExtCols == 2
ExtFilled == 2

\* 1.5, 2, "1,200.00", " $5 ", "ab", "1 $2", "" and "-.5"
ExtractPool ==
    {FloatCell(1500), IntCell(2),
     StrCell(<<"1", ",", "2", "0", "0", ".", "0", "0">>),
     StrCell(<<" ", "$", "5", " ">>),
     StrCell(<<"a", "b">>),
     StrCell(<<"1", " ", "$", "2">>),
     StrCell(<<>>),
     StrCell(<<"-", ".", "5">>)}

InitExtract ==
    /\ pc = "call_extract"
    /\ \/ sheet \in SparseSheets(ExtRows, ExtCols, ExtFilled, ExtractPool)
       \/ sheet \in TestSheets
    /\ header_row \in 1..sheet.max_row
    /\ col_idx \in 0..(sheet.max_column - 1)
    /\ columns = <<>> /\ headers = <<>> /\ matches = <<>>
    /\ values = <<>> /\ summary = <<>>
    /\ Idle

CallExtract ==
    /\ pc = "call_extract"
    /\ values' = extract_numeric_values(sheet, header_row, col_idx)
    /\ pc' = "ret_extract"
    /\ UNCHANGED <<request, upload, columns, sheet_name, tmp_file, workbook,
                   sheet, header_row, headers, matches, col_idx, summary,
                   response>>

SpecExtract == InitExtract /\ [][CallExtract]_vars

(***************************************************************************)
(* find_columns_in_excel on the active sheet of a loaded workbook          *)
(***************************************************************************)
CoreRows == 3
CoreCols == 2
CoreFilled == 3
CoreTargets == 2

CorePool == {StrCell(TextAb), FloatCell(125)}
CoreNames == {<<"a">>, <<"A">>, <<"B">>, <<"x">>}

\* a header and three times 0.125
EighthsSheet ==
    MakeSheet(4, 1,
         <<1, 1>> :> StrCell(TextAb) @@ <<2, 1>> :> FloatCell(125)
      @@ <<3, 1>> :> FloatCell(125) @@ <<4, 1>> :> FloatCell(125))

\* a header over "1,200.00", " $5 ", "ab" and 0.125
TextNumbersSheet ==
    MakeSheet(5, 1,
         <<1, 1>> :> StrCell(TextAb)
      @@ <<2, 1>> :> StrCell(<<"1", ",", "2", "0", "0", ".", "0", "0">>)
      @@ <<3, 1>> :> StrCell(<<" ", "$", "5", " ">>)
      @@ <<4, 1>> :> StrCell(<<"a", "b">>)
      @@ <<5, 1>> :> FloatCell(125))

\* the pairs <<worksheet, columns>> of the test suite, the eighths, the
\* numbers stored as text and the oversized int
TestCases ==
    {<<SimpleSheet, <<TPrice, TQuantity>>>>,
     <<SimpleSheet, <<TPrice, TNonexistent, TQuantity>>>>,
     <<ComplexSheet, <<TUsd, TCad>>>>,
     <<ComplexSheet, <<TCurrentUsd, TPrice, TUsd>>>>,
     <<EighthsSheet, <<<<"a">>>>>>,
     <<TextNumbersSheet, <<<<"B">>, <<"x">>>>>>,
     <<OversizedSheet, <<TPrice, TQuantity>>>>}

\* find_columns_in_excel has loaded the workbook and is about to analyse ws
AtAnalyze(ws, cols) ==
    /\ sheet = ws
    /\ columns = cols
    /\ upload = OneSheet(ws)
    /\ request = [filename |-> NameXlsx, columns |-> cols, sheet_name |-> None]

InitCore ==
    /\ pc = "analyze"
    /\ \/ \E ws \in SparseSheets(CoreRows, CoreCols, CoreFilled, CorePool) :
             \E cols \in SeqsOf(CoreNames, 1, CoreTargets) : AtAnalyze(ws, cols)
       \/ \E case \in TestCases : AtAnalyze(case[1], case[2])
    /\ sheet_name = None
    /\ tmp_file = "exists"
    /\ workbook = "open"
    /\ header_row = 0 /\ headers = <<>> /\ matches = <<>>
    /\ col_idx = 0 /\ values = <<>> /\ summary = <<>>
    /\ response = NoResponse

SpecCore == InitCore /\ [][Analyze]_vars

(***************************************************************************)
(* Properties                                                              *)
(***************************************************************************)
\* the number of cells of row r of ws that hold text
TextCount(ws, r) ==
    Cardinality({c \in 1..ws.max_column : ws.cell[<<r, c>>].k = "str"})

\* the rows the header row is chosen from
Window(ws) == {r \in 1..ws.max_row : r <= 10}

\* C1: find_best_header_row returns the lowest row of 1..min(10, maxRow) whose
\* number of text cells is the greatest of that window: no row of the window
\* has more, every earlier row has fewer, it is row 1 when no row of the window
\* has a text cell, and it is never a row beyond row 10.
C1_HeaderRowIsFirstMaximum ==
    pc = "ret_header" =>
        /\ header_row \in Window(sheet)
        /\ \A r \in Window(sheet) :
              TextCount(sheet, r) <= TextCount(sheet, header_row)
        /\ \A r \in Window(sheet) :
              r < header_row => TextCount(sheet, r) < TextCount(sheet, header_row)
        /\ (\A r \in Window(sheet) : TextCount(sheet, r) = 0) => header_row = 1
        /\ header_row <= 10

\* a sheet of more than 10 rows on which a later row of the window ties with
\* the row returned, which is not row 1
C1_Witness ==
    /\ pc = "ret_header"
    /\ sheet.max_row > 10
    /\ header_row > 1
    /\ \E r \in Window(sheet) :
          r > header_row /\ TextCount(sheet, r) = TextCount(sheet, header_row)

\* the 0-based indices of the headers that are non-empty and contain the
\* target, both in lower case
Candidates(hs, t) ==
    {i \in 0..(Len(hs) - 1) :
        hs[i + 1] # <<>> /\ Contains(Lower(t), Lower(hs[i + 1]))}

Least(S) == CHOOSE i \in S : \A j \in S : i <= j

\* C2: find_column_matches maps each target to the smallest index of a
\* non-empty header that contains it (case-insensitively), leaves out the
\* targets no header contains, and holds one entry per target name.
C2_FirstContainingHeader ==
    pc = "ret_match" =>
        /\ \A k \in 1..Len(columns) :
              IF Candidates(headers, columns[k]) = {}
              THEN ~HasKey(matches, columns[k])
              ELSE /\ HasKey(matches, columns[k])
                   /\ DictGet(matches, columns[k]) = Least(Candidates(headers, columns[k]))
        /\ \A i \in 1..Len(matches) :
              /\ \E k \in 1..Len(columns) : columns[k] = matches[i].name
              /\ \A j \in 1..Len(matches) : matches[j].name = matches[i].name => j = i

\* two distinct targets are mapped to the same header, which is not the first
\* header and is not in the case of the targets; a third header also matches
C2_Witness ==
    /\ pc = "ret_match"
    /\ Len(matches) = 2
    /\ matches[1].name # matches[2].name
    /\ matches[1].idx = matches[2].idx
    /\ matches[1].idx > 0
    /\ Cardinality(Candidates(headers, matches[1].name)) > 1
    /\ headers[matches[1].idx + 1] # matches[1].name

\* a cell value that yields a number: an int, a float, or text that float()
\* accepts once every "," and "$" is removed
Coercible(val) ==
    \/ val.k \in {"int", "float"}
    \/ val.k = "str" /\ IsFloatLiteral(Strip(Remove(Remove(val.s, ","), "$")))

\* the number a coercible cell value yields, in thousandths
NumberOf(val) ==
    CASE val.k = "int" -> val.v * 1000
      [] val.k = "float" -> val.v
      [] val.k = "str" -> FloatOf(Strip(Remove(Remove(val.s, ","), "$")))

\* the rows below row h whose cell in column c (1-based) is coercible
CoercibleRows(ws, h, c) ==
    {r \in (h + 1)..ws.max_row : Coercible(ws.cell[<<r, c>>])}

InSummary(t) == \E i \in 1..Len(summary) : summary[i].column = t

\* the target is contained in more than one header
Ambiguous(t) == Cardinality(Candidates(headers, t)) > 1

\* C3 as stated: a target contained in some header appears in the summary if
\* that header's column has a coercible cell below the header row, also when
\* an earlier header contains the target too.
C3_AnyContainingHeader ==
    pc = "finally_return" =>
        \A k \in 1..Len(columns) : \A c \in 1..sheet.max_column :
            (/\ headers[c] # <<>>
             /\ Contains(Lower(columns[k]), Lower(headers[c]))
             /\ CoercibleRows(sheet, header_row, c) # {})
                => InSummary(columns[k])

\* C3 amended: a target contained in some header appears in the summary if the
\* column of the first header that contains it has a coercible cell below the
\* header row.
C3_FirstContainingHeader ==
    pc = "finally_return" =>
        \A k \in 1..Len(columns) :
            (/\ Candidates(headers, columns[k]) # {}
             /\ CoercibleRows(sheet, header_row,
                              Least(Candidates(headers, columns[k])) + 1) # {})
                => InSummary(columns[k])

\* a target contained in two headers is in the summary, by the first column
C3_Witness ==
    /\ pc = "finally_return"
    /\ \E k \in 1..Len(columns) :
          /\ Ambiguous(columns[k])
          /\ CoercibleRows(sheet, header_row,
                           Least(Candidates(headers, columns[k])) + 1) # {}
          /\ InSummary(columns[k])

\* the number of matches whose column has a coercible cell below the header row
NumericMatches ==
    Cardinality({i \in 1..Len(matches) :
                    CoercibleRows(sheet, header_row, matches[i].idx + 1) # {}})

\* C4 as stated: summary <= matches <= targets <= matched columns with a value.
C4_ChainAsStated ==
    pc = "finally_return" =>
        /\ Len(summary) <= Len(matches)
        /\ Len(matches) <= Len(columns)
        /\ Len(columns) <= NumericMatches

\* C4 amended: the summary has one entry per match whose column has a numeric
\* value, and summary <= matches <= targets.
C4_Chain ==
    pc = "finally_return" =>
        /\ NumericMatches = Len(summary)
        /\ Len(summary) <= Len(matches)
        /\ Len(matches) <= Len(columns)

\* both inequalities are strict
C4_Witness ==
    /\ pc = "finally_return"
    /\ Len(summary) < Len(matches)
    /\ Len(matches) < Len(columns)

\* the sequence without its repeats, the first occurrence kept
RECURSIVE Dedupe(_)
Dedupe(xs) ==
    IF xs = <<>> THEN <<>>
    ELSE LET front == Dedupe(SubSeq(xs, 1, Len(xs) - 1))
             last == xs[Len(xs)]
         IN  IF \E i \in 1..Len(front) : front[i] = last
             THEN front ELSE Append(front, last)

\* the target matches a header and the matched column has a coercible cell
Emitted(t) ==
    /\ Candidates(headers, t) # {}
    /\ CoercibleRows(sheet, header_row, Least(Candidates(headers, t)) + 1) # {}

\* C5: the column names of the summary are the targets without repeats, in the
\* caller's order, restricted to the targets that matched a header whose column
\* has a coercible cell.
C5_SummaryNames ==
    pc = "finally_return" =>
        [i \in 1..Len(summary) |-> summary[i].column]
            = SelectSeq(Dedupe(columns), Emitted)

\* a target given twice is in the summary once
C5_Witness ==
    /\ pc = "finally_return"
    /\ Len(columns) = 2
    /\ columns[1] = columns[2]
    /\ Len(summary) = 1

RECURSIVE SumCells(_, _, _)
SumCells(ws, R, c) ==
    IF R = {} THEN 0
    ELSE LET r == CHOOSE x \in R : TRUE
         IN  NumberOf(ws.cell[<<r, c>>]) + SumCells(ws, R \ {r}, c)

Abs(x) == IF x < 0 THEN 0 - x ELSE x

\* h hundredths is num / den thousandths rounded to 2 places: no hundredth is
\* nearer, and of two equally near ones h is the even one
IsRounded(h, num, den) ==
    /\ 2 * Abs(num - 10 * den * h) <= 10 * den
    /\ 2 * Abs(num - 10 * den * h) = 10 * den => h % 2 = 0

\* C7: in every summary entry sum is the total of the coercible cells of the
\* matched column rounded to 2 places, and avg is that unrounded total divided
\* by the number of those cells, rounded to 2 places.
C7_SumAndAvg ==
    pc = "finally_return" =>
        \A i \in 1..Len(summary) :
            LET c == DictGet(matches, summary[i].column) + 1
                R == CoercibleRows(sheet, header_row, c)
                total == SumCells(sheet, R, c)
            IN  /\ R # {}
                /\ IsRounded(summary[i].sum, total, 1)
                /\ IsRounded(summary[i].avg, total, Cardinality(R))

\* an entry over fewer values than data rows whose sum was rounded
C7_Witness ==
    /\ pc = "finally_return"
    /\ \E i \in 1..Len(summary) :
          LET c == DictGet(matches, summary[i].column) + 1
              R == CoercibleRows(sheet, header_row, c)
          IN  /\ Cardinality(R) < sheet.max_row - header_row
              /\ summary[i].sum * 10 # SumCells(sheet, R, c)

ScenarioA ==
    /\ pc = "finally_return"
    /\ sheet = SimpleSheet
    /\ columns = <<TPrice, TQuantity>>

HasEntry(name, s, a) ==
    \E i \in 1..Len(summary) : summary[i] = [column |-> name, sum |-> s, avg |-> a]

\* C8 as stated: Scenario A yields price sum=526.50 avg=131.63 and quantity
\* sum=38 avg=9.5.
C8_ScenarioAsStated ==
    ScenarioA => HasEntry(TPrice, 52650, 13163) /\ HasEntry(TQuantity, 3800, 950)

\* C8 amended: Scenario A yields price sum=526.50 avg=131.62 and quantity
\* sum=38 avg=9.5.
C8_ScenarioHalfEven ==
    ScenarioA => HasEntry(TPrice, 52650, 13162) /\ HasEntry(TQuantity, 3800, 950)

C8_Witness == ScenarioA /\ Len(summary) = 2

\* the k-th row of R in increasing order
NthRow(R, k) == CHOOSE r \in R : Cardinality({x \in R : x < r}) = k - 1

Text1200 == <<"1", ",", "2", "0", "0", ".", "0", "0">>

\* C6: extract_numeric_values returns, in increasing row order, one value for
\* each row below the header row whose cell in column col_idx + 1 is a number
\* (taken as it is) or text that parses once "," and "$" and the surrounding
\* blanks are removed ("1,200.00" yields 1200.0), and nothing else.
C6_ExtractedValues ==
    pc = "ret_extract" =>
        LET c == col_idx + 1
            R == CoercibleRows(sheet, header_row, c)
        IN  /\ Len(values) = Cardinality(R)
            /\ \A k \in 1..Len(values) :
                  LET val == sheet.cell[<<NthRow(R, k), c>>]
                  IN  /\ values[k] = NumberOf(val)
                      /\ val = StrCell(Text1200) => values[k] = 1200000
                      /\ val = FloatCell(1500) => values[k] = 1500
                      /\ val = IntCell(2) => values[k] = 2000

\* the text "1,200.00" is the one value of a column that also holds text that
\* does not parse
C6_Witness ==
    /\ pc = "ret_extract"
    /\ values = <<1200000>>
    /\ \E r \in (header_row + 1)..sheet.max_row :
          /\ sheet.cell[<<r, col_idx + 1>>].k = "str"
          /\ ~Coercible(sheet.cell[<<r, col_idx + 1>>])

\* C9: every run of process_excel_file for a validated request ends with the
\* temporary file removed and the workbook closed.
C9_ResourcesReleased ==
    (pc = "done" /\ IsValid(request)) =>
        /\ tmp_file # "exists"
        /\ workbook # "open"

\* the validated request names a sheet the workbook does not have
AbsentSheet(name) ==
    /\ IsValid(request)
    /\ upload.valid
    /\ name.given
    /\ name.s \notin DOMAIN upload.sheets

\* find_columns_in_excel has located, matched and extracted nothing
NothingAnalysed ==
    /\ sheet = NoSheet
    /\ header_row = 0
    /\ headers = <<>>
    /\ matches = <<>>
    /\ summary = <<>>

\* the request has ended with the one error response
FatalWhenDone ==
    pc = "done" =>
        response = [status |-> 500, kind |-> "error", file |-> <<>>, summary |-> <<>>]

\* C10 as stated: a provided sheet name (blank included) that the workbook
\* lacks makes the request fail before anything is analysed, and the active
\* sheet is used only when no sheet name is provided.
C10_AbsentSheetFatal ==
    LET name == CleanSheetName(request.sheet_name)
    IN  /\ AbsentSheet(name) => NothingAnalysed /\ FatalWhenDone
        /\ (IsValid(request) /\ sheet # NoSheet /\ name.given)
              => name.s \in DOMAIN upload.sheets /\ sheet = upload.sheets[name.s]

\* C10 amended: a provided sheet name that is not blank and that the workbook
\* lacks makes the request fail before anything is analysed; the active sheet
\* is used when no sheet name is provided or the one provided is blank.
C10_NonBlankAbsentSheetFatal ==
    LET name == CleanSheetName(request.sheet_name)
    IN  /\ (AbsentSheet(name) /\ name.s # <<>>) => NothingAnalysed /\ FatalWhenDone
        /\ (IsValid(request) /\ sheet # NoSheet /\ name.given /\ name.s # <<>>)
              => name.s \in DOMAIN upload.sheets /\ sheet = upload.sheets[name.s]
        /\ (IsValid(request) /\ sheet # NoSheet /\ (~name.given \/ name.s = <<>>))
              => sheet = upload.sheets[upload.active]

\* the request for a sheet the workbook lacks has ended, the upload written
C10_Witness ==
    /\ pc = "done"
    /\ IsValid(request)
    /\ request.sheet_name = Some(SheetB)
    /\ upload = OneSheet(SimpleSheet)
    /\ tmp_file = "removed"
    /\ response.status = 500

\* the request was validated, its upload written and decoded, and the sheet
\* selected
SheetSelected ==
    /\ IsValid(request)
    /\ sheet # NoSheet

\* C11: a validated request whose workbook decodes and whose sheet selection
\* succeeds ends with the 200 response that carries the posted file name and
\* the summary list, whatever the cells and the targets are, and the summary
\* is the empty list when no target matched a column.
C11_AlwaysSuccess ==
    (pc = "done" /\ SheetSelected) =>
        /\ response.status = 200
        /\ response.kind = "summary"
        /\ response.file = request.filename
        /\ response.summary = summary
        /\ (matches = <<>> => response.summary = <<>>)

====
